---- MODULE Spec2Model ----
(***************************************************************************)
(* A model of climetlab/readers/grib.py: the GRIB message scanner          *)
(* (_get_message_offsets), the index sidecar (GRIBIndex), the decoder      *)
(* handle and cursor (CodesHandle, CodesReader), the lazy field            *)
(* (GribField), the sequential iterator (GRIBIterator) and the reader      *)
(* facade (GRIBReader).                                                    *)
(*                                                                         *)
(* A file is a sequence of bytes (0..255); file offset p is element p+1.   *)
(***************************************************************************)
EXTENDS Integers, Sequences, FiniteSets, TLC

(***************************************************************************)
(* Bounds of the model.                                                    *)
(***************************************************************************)
\* how many catalogue messages a generated well-formed file concatenates
MaxMsgs == 2
\* how many pairs one scan may deliver before the model stops following it
MaxPairs == 4
\* how many GribFields the caller creates with __getitem__ and first
MaxFields == 2
\* how many values a request or an order lists for one key
MaxValues == 2
\* how many metadata accessor calls the caller makes, over all GribFields
MaxCalls == 3
MaxStats == 2

(***************************************************************************)
(* Program constants.                                                      *)
(***************************************************************************)
VERSION == 1
Byte == 256
HighBit == 8388608
Quirk == 120
Bit7 == 128
Bit6 == 64
Sentinel == 2147483647

Marker == <<71, 82, 73, 66>>
Trailer == <<55, 55, 55, 55>>

(***************************************************************************)
(* Byte-level helpers: os.read, and the big-endian fold of get(count).     *)
(***************************************************************************)
Min(a, b) == IF a < b THEN a ELSE b

\* os.read(fd, count) at position pos: the bytes available, at most count
Read(f, pos, count) ==
    IF pos >= Len(f) THEN <<>>
    ELSE SubSeq(f, pos + 1, Min(pos + count, Len(f)))

RECURSIVE BigEndian(_)
BigEndian(buf) ==
    IF buf = <<>> THEN 0
    ELSE BigEndian(SubSeq(buf, 1, Len(buf) - 1)) * Byte + buf[Len(buf)]

\* get(count): [ok |-> FALSE] when the assertion len(buf) == count fails
get(f, pos, count) ==
    LET buf == Read(f, pos, count)
    IN  IF Len(buf) = count
        THEN [ok |-> TRUE, n |-> BigEndian(buf), pos |-> pos + count]
        ELSE [ok |-> FALSE, n |-> 0, pos |-> pos + Len(buf)]

(***************************************************************************)
(* _get_message_offsets: one pass of the `while True` loop at `offset`.    *)
(* At the head of the loop the descriptor's position equals `offset`.      *)
(***************************************************************************)
\* length & 0x800000
HasHighBit(length) == (length \div HighBit) % 2 = 1

\* flags & (1 << 7), flags & (1 << 6)
HasSection2(flags) == (flags \div Bit7) % 2 = 1
HasSection3(flags) == (flags \div Bit6) % 2 = 1

\* length &= 0x7FFFFF; length *= 120; length -= sec4len; length += 4
CorrectedLengthUnmasked(length, sec4len) == length * Quirk - sec4len + 4

CorrectedLength(length, sec4len) == (length % HighBit) * Quirk - sec4len + 4

\* one optional section: its 3-byte length, then lseek(len - 3, SEEK_CUR)
SkipSection(f, pos, present) ==
    IF ~present THEN [ok |-> TRUE, pos |-> pos]
    ELSE LET s == get(f, pos, 3)
         IN  [ok |-> s.ok, pos |-> s.pos + s.n - 3]

\* the edition-1 walk to section 4, entered when the high bit is set;
\* pos is the position after the edition byte
Edition1Length(f, pos, length) ==
    LET Raise == [kind |-> "raise", length |-> 0]
        \* sec4len = get(3) and the correction of the length
        Section4(sec4) ==
            IF ~sec4.ok THEN Raise
            ELSE [kind |-> "yield",
                  length |-> IF sec4.n < Quirk
                             THEN CorrectedLength(length, sec4.n)
                             ELSE length]
        Section3(s3) ==
            IF ~s3.ok THEN Raise ELSE Section4(get(f, s3.pos, 3))
        Section2(s2, flags) ==
            IF ~s2.ok THEN Raise
            ELSE Section3(SkipSection(f, s2.pos, HasSection3(flags)))
        \* os.lseek(fd, 4, SEEK_CUR); flags = os.read(fd, 1);
        \* os.lseek(fd, sec1len - 8, SEEK_CUR)
        Flags(sec1, fl) ==
            Section2(SkipSection(f, sec1.pos + 4 + Len(fl) + sec1.n - 8,
                                 HasSection2(BigEndian(fl))),
                     BigEndian(fl))
        Section1(sec1) ==
            IF ~sec1.ok THEN Raise ELSE Flags(sec1, Read(f, sec1.pos + 4, 1))
    IN  Section1(get(f, pos, 3))

\* after the marker matched: length = get(3); edition = get(1); ...
MessageLength(f, offset) ==
    LET Raise == [kind |-> "raise", length |-> 0]
        Edition2(l8) ==
            IF l8.ok THEN [kind |-> "yield", length |-> l8.n] ELSE Raise
        Edition(length, edition) ==
            IF ~edition.ok THEN Raise
            ELSE IF edition.n = 1 /\ HasHighBit(length.n)
            THEN Edition1Length(f, edition.pos, length.n)
            ELSE IF edition.n = 2 THEN Edition2(get(f, edition.pos, 8))
            ELSE [kind |-> "yield", length |-> length.n]
        Length(length) ==
            IF ~length.ok THEN Raise ELSE Edition(length, get(f, length.pos, 1))
    IN  Length(get(f, offset + 4, 3))

\* code = os.read(fd, 4) and the two tests on it
ScanIter(f, offset) ==
    LET code == Read(f, offset, 4)
    IN  IF Len(code) < 4 THEN [kind |-> "eof", length |-> 0]
        ELSE IF code # Marker THEN [kind |-> "skip", length |-> 0]
        ELSE MessageLength(f, offset)

\* offset = os.lseek(fd, offset + 1, os.SEEK_SET)
SkipToNextWord(offset) == offset + 4

SkipTo(offset) == offset + 1

\* offset = os.lseek(fd, offset + length, os.SEEK_SET)
SeekToNextByte(offset, length) == offset + 1

SeekTo(offset, length) == offset + length

(***************************************************************************)
(* Input files: concatenations of well-formed messages, and files that     *)
(* are not (garbage, padding, truncation, a zero length field).            *)
(***************************************************************************)
Pad(n) == [i \in 1..n |-> 0]

RECURSIVE Be(_, _)
Be(n, count) == IF count = 0 THEN <<>> ELSE Be(n \div Byte, count - 1) \o <<n % Byte>>

\* edition 1, total length n >= 12, the given bytes in its body
Ed1Msg(n, body) ==
    Marker \o Be(n, 3) \o <<1>> \o body \o Pad(n - 12 - Len(body)) \o Trailer

\* edition 2, total length n >= 20
Ed2Msg(n) ==
    Marker \o <<0, 0, 0, 2>> \o Be(n, 8) \o Pad(n - 20) \o Trailer

Section(len) == Be(len, 3) \o Pad(len - 3)

\* edition 1 with the high bit set: outer length field k, section 4 length s4
Ed1Quirk(k, s4, flags, sec1len, sec2len, sec3len) ==
    LET total == k * Quirk - s4 + 4
        head  == Marker \o Be(HighBit + k, 3) \o <<1>>
                 \o Be(sec1len, 3) \o Pad(4) \o <<flags>> \o Pad(sec1len - 8)
                 \o (IF HasSection2(flags) THEN Section(sec2len) ELSE <<>>)
                 \o (IF HasSection3(flags) THEN Section(sec3len) ELSE <<>>)
                 \o Be(s4, 3)
    IN  head \o Pad(total - Len(head) - 4) \o Trailer

\* the same message up to and including the length of its section 4
Ed1QuirkHead(k, s4, flags, sec1len, sec2len, sec3len) ==
    Marker \o Be(HighBit + k, 3) \o <<1>>
    \o Be(sec1len, 3) \o Pad(4) \o <<flags>> \o Pad(sec1len - 8)
    \o (IF flags \in {Bit7, Bit7 + Bit6} THEN Section(sec2len) ELSE <<>>)
    \o (IF flags \in {Bit6, Bit7 + Bit6} THEN Section(sec3len) ELSE <<>>)
    \o Be(s4, 3)

MsgE1 == Ed1Msg(16, Marker)
MsgE2 == Ed2Msg(20)
MsgQ == Ed1Quirk(1, 96, 0, 8, 0, 0)
MsgQ23 == Ed1Quirk(1, 90, Bit7 + Bit6, 9, 4, 3)

Catalogue == {MsgE1, MsgE2, MsgQ, MsgQ23}

RECURSIVE Concat(_)
Concat(ms) == IF ms = <<>> THEN <<>> ELSE Head(ms) \o Concat(Tail(ms))

MsgSeqs == UNION {[1..n -> Catalogue] : n \in 0..MaxMsgs}

ValidFiles == {Concat(ms) : ms \in MsgSeqs}

OddFiles ==
    { <<0, 71>> \o MsgE1,                   \* leading garbage
      MsgE2 \o <<0>> \o MsgE1,              \* padding between messages
      Marker \o <<0>>,                      \* cut inside the first header
      MsgE1 \o Marker \o <<0, 0>>,          \* one message, then a cut header
      SubSeq(MsgQ, 1, 17),                  \* cut inside the section walk
      SubSeq(MsgE1, 1, 10),                 \* header complete, body cut
      Marker \o <<0, 0, 0, 1>>,             \* length field 0
      Marker \o Be(HighBit, 3) \o <<1>> \o Section(8)
             \o Be(100, 3) }                \* high bit set, outer length 0

\* edition-1 messages with the high bit set, by their fields: the outer
\* length field is HighBit + k, s4 the length of section 4; whole messages
\* with no section 2 or 3, with both, with one of them
QuirkWhole ==
    { [k |-> 1, s4 |-> 96, flags |-> 0, s1 |-> 8, s2 |-> 0, s3 |-> 0],
      [k |-> 1, s4 |-> 90, flags |-> Bit7 + Bit6, s1 |-> 9, s2 |-> 4, s3 |-> 3],
      [k |-> 1, s4 |-> 95, flags |-> Bit7, s1 |-> 8, s2 |-> 5, s3 |-> 0],
      [k |-> 1, s4 |-> 94, flags |-> Bit6, s1 |-> 10, s2 |-> 0, s3 |-> 4] }

\* headers alone, with a section 4 length on either side of the threshold
QuirkHeads ==
    { [k |-> 1, s4 |-> Quirk - 1, flags |-> 0, s1 |-> 8, s2 |-> 0, s3 |-> 0],
      [k |-> 1, s4 |-> Quirk, flags |-> 0, s1 |-> 8, s2 |-> 0, s3 |-> 0],
      [k |-> 2, s4 |-> Quirk + 1, flags |-> Bit7, s1 |-> 8, s2 |-> 3, s3 |-> 0] }

QuirkMsg(c) == Ed1Quirk(c.k, c.s4, c.flags, c.s1, c.s2, c.s3)

QuirkHead(c) == Ed1QuirkHead(c.k, c.s4, c.flags, c.s1, c.s2, c.s3)

QuirkFiles ==
    {QuirkMsg(c) : c \in QuirkWhole}
    \cup {QuirkMsg(c) \o MsgE1 : c \in QuirkWhole}
    \cup {QuirkHead(c) : c \in QuirkHeads}

\* runs of bytes that hold no marker: none, one byte, the first three
\* bytes of the marker, the marker backwards
Pads == {<<>>, <<0>>, <<71, 82, 73>>, <<66, 73, 82, 71, 7>>}

PaddedMsgs == {MsgE1, MsgE2, MsgQ}

\* one or two messages, each behind a run of such bytes
Layouts ==
    {<<[pad |-> p, msg |-> m]>> : p \in Pads, m \in PaddedMsgs}
    \cup {<<[pad |-> p, msg |-> m], [pad |-> q, msg |-> n]>> :
             p \in Pads, q \in Pads, m \in PaddedMsgs, n \in PaddedMsgs}

RECURSIVE Render(_)
Render(lay) ==
    IF lay = <<>> THEN <<>>
    ELSE Head(lay).pad \o Head(lay).msg \o Render(Tail(lay))

PaddedFiles == {Render(lay) : lay \in Layouts}

Files == ValidFiles \cup OddFiles \cup QuirkFiles \cup PaddedFiles

\* the files the reader facade is followed on
FacadeFiles ==
    { <<>>, MsgQ23, MsgE1 \o MsgE2,
      <<0, 71>> \o MsgE1, MsgE2 \o <<0>> \o MsgE1,
      SubSeq(MsgE1, 1, 10), MsgE1 \o Marker \o <<0, 0>> }

(***************************************************************************)
(* The whole generator run, as _build_index consumes it: the pairs         *)
(* delivered and how the run ends: "eof", "raise", or "unfinished" when    *)
(* more than MaxPairs pairs are delivered (a run is followed no further).  *)
(***************************************************************************)
\* the passes that end in `continue`: from offset, one byte at a time, to
\* the first position where the four bytes read are the marker or are
\* fewer than four
SkipRun(f, offset) ==
    IF ScanIter(f, offset).kind # "skip" THEN offset
    ELSE CHOOSE o \in offset..Len(f) :
            /\ ScanIter(f, o).kind # "skip"
            /\ \A p \in offset..(o - 1) : ScanIter(f, p).kind = "skip"

RECURSIVE ScanFrom(_, _, _)
ScanFrom(f, offset, fuel) ==
    LET Yield(at, length, rest) ==
            [end |-> rest.end, pairs |-> << <<at, length>> >> \o rest.pairs]
        Pass(at, it) ==
            IF it.kind = "eof" THEN [end |-> "eof", pairs |-> <<>>]
            ELSE IF it.kind = "raise" THEN [end |-> "raise", pairs |-> <<>>]
            ELSE IF fuel = 0 THEN [end |-> "unfinished", pairs |-> <<>>]
            ELSE IF SeekTo(at, it.length) < 0
            THEN [end |-> "raise", pairs |-> << <<at, it.length>> >>]
            ELSE Yield(at, it.length, ScanFrom(f, SeekTo(at, it.length), fuel - 1))
        At(at) == Pass(at, ScanIter(f, at))
    IN  At(SkipRun(f, offset))

ScanAll(f) == ScanFrom(f, 0, MaxPairs)

Offsets(pairs) == [i \in 1..Len(pairs) |-> pairs[i][1]]
Lengths(pairs) == [i \in 1..Len(pairs) |-> pairs[i][2]]

(***************************************************************************)
(* The index sidecar.  A sidecar is what the file at GRIBIndex.cache       *)
(* holds: nothing readable, text that is not JSON, or a JSON value.        *)
(***************************************************************************)
\* json.dump(dict(version=..., offsets=..., lengths=...), f)
JsonDump(version, offsets, lengths) ==
    [kind |-> "dict", keys |-> {"version", "offsets", "lengths"},
     version |-> version, offsets |-> offsets, lengths |-> lengths]

SidecarNull == [kind |-> "null"]
SidecarMissing == [kind |-> "missing"]
SidecarUnreadable == [kind |-> "unreadable"]
SidecarGarbage == [kind |-> "garbage"]
SidecarList == [kind |-> "list"]
SidecarNoVersion ==
    [kind |-> "dict", keys |-> {"offsets", "lengths"},
     version |-> 0, offsets |-> <<7>>, lengths |-> <<9>>]
SidecarOldVersion ==
    [kind |-> "dict", keys |-> {"version", "offsets", "lengths"},
     version |-> VERSION + 1, offsets |-> <<7>>, lengths |-> <<9>>]

\* records of the current version that are not an index: one list
\* missing, the two lists of different lengths
SidecarNoLengths ==
    [kind |-> "dict", keys |-> {"version", "offsets"},
     version |-> VERSION, offsets |-> <<0>>, lengths |-> <<>>]
SidecarUnequal ==
    [kind |-> "dict", keys |-> {"version", "offsets", "lengths"},
     version |-> VERSION, offsets |-> <<0, 16>>, lengths |-> <<16>>]

MisshapenSidecars == {SidecarNoLengths, SidecarUnequal}

\* the sidecars a file may be found with: the ones above, and the one an
\* earlier construction wrote after scanning this file
Sidecars(f) ==
    LET Written(scan) ==
            IF scan.end = "eof"
            THEN {JsonDump(VERSION, Offsets(scan.pairs), Lengths(scan.pairs))}
            ELSE {}
    IN  {SidecarNull, SidecarMissing, SidecarUnreadable, SidecarGarbage,
         SidecarList, SidecarNoVersion, SidecarOldVersion}
        \cup Written(ScanAll(f))

\* GRIBIndex._load_cache: open, json.load, isinstance(c, dict),
\* assert c["version"] == VERSION, c["offsets"], c["lengths"];
\* any exception is logged and the load reports False
LoadCacheAnyVersion(c) ==
    IF c.kind # "dict" THEN [hit |-> FALSE]
    ELSE IF "offsets" \notin c.keys \/ "lengths" \notin c.keys THEN [hit |-> FALSE]
    ELSE [hit |-> TRUE, offsets |-> c.offsets, lengths |-> c.lengths]

LoadCache(c) ==
    IF c.kind \in {"missing", "unreadable"} THEN [hit |-> FALSE]
    ELSE IF c.kind = "garbage" THEN [hit |-> FALSE]
    ELSE IF c.kind # "dict" THEN [hit |-> FALSE]
    ELSE IF "version" \notin c.keys THEN [hit |-> FALSE]
    ELSE IF c.version # VERSION THEN [hit |-> FALSE]
    ELSE IF "offsets" \notin c.keys \/ "lengths" \notin c.keys THEN [hit |-> FALSE]
    ELSE [hit |-> TRUE, offsets |-> c.offsets, lengths |-> c.lengths]

\* GRIBIndex._save_cache: open(cache, "w") and json.dump; a failure is
\* logged.  The write may fail before the file is touched, or part-way.
SaveOutcomes == {"written", "open_failed", "partial"}

SaveCacheSwapped(c, offsets, lengths, outcome) ==
    IF outcome = "written" THEN JsonDump(VERSION, lengths, offsets)
    ELSE IF outcome = "partial" THEN SidecarGarbage
    ELSE c

SaveCache(c, offsets, lengths, outcome) ==
    IF outcome = "written" THEN JsonDump(VERSION, offsets, lengths)
    ELSE IF outcome = "partial" THEN SidecarGarbage
    ELSE c

(***************************************************************************)
(* The external decoder behind eccodes.codes_new_from_file, as             *)
(* CodesReader._next_handle uses it: from position pos, find the next      *)
(* marker, read one whole message, leave the position after it.            *)
(*   "handle": a message was decoded; "none": no further message;          *)
(*   "error": a marker whose message is cut short or has no trailer.       *)
(***************************************************************************)
MarkersFrom(f, pos) ==
    {m \in pos..(Len(f) - 4) : SubSeq(f, m + 1, m + 4) = Marker}

CodesNewFromFile(f, pos) ==
    LET Message(m, ml) ==
            IF /\ ml.kind = "yield"
               /\ ml.length >= 12
               /\ m + ml.length <= Len(f)
               /\ SubSeq(f, m + ml.length - 3, m + ml.length) = Trailer
            THEN [kind |-> "handle", start |-> m, end |-> m + ml.length]
            ELSE [kind |-> "error", start |-> m, end |-> Len(f)]
        At(m) == Message(m, MessageLength(f, m))
        First1(ms) ==
            IF ms = {} THEN [kind |-> "none", start |-> pos, end |-> Len(f)]
            ELSE At(CHOOSE x \in ms : \A y \in ms : x <= y)
    IN  First1(MarkersFrom(f, pos))

(***************************************************************************)
(* State.                                                                  *)
(***************************************************************************)
Readers == {"r1", "r2"}

VARIABLES
    file,        \* the bytes of the source file at `path`
    cache,       \* the index sidecar of `path`
    index,       \* per reader: GRIBReader._index (built = FALSE is None)
    building,    \* the reader whose GRIBIndex is under construction, or "-"
    scanPc,      \* the generator: "idle", "run", "done", "raised"
    scanOffset,  \* the generator's local `offset`
    scanOut,     \* the pairs the generator has delivered in this run
    cursor,      \* per reader: position of GRIBReader._reader, -1 is None
    fields,      \* the GribFields created by __getitem__ and first
    handles,     \* the CodesHandles materialized so far
    iter,        \* the GRIBIterator in progress
    ret,         \* the outcome of the last call the caller made
    stats,       \* per reader: GRIBReader._statistics and its statistics() calls
    statCache,   \* the statistics sidecar of `path`
    message,     \* what the decoder answers for each key of one Handle
    got,         \* the outcome of the last call on that Handle or its Field
    ds,          \* the dataset sel() and order_by() last returned
    fieldset     \* a FieldSet over readers, its iterator, the last item asked

vars == <<file, cache, index, building, scanPc, scanOffset, scanOut,
          cursor, fields, handles, iter, ret, stats, statCache,
          message, got, ds, fieldset>>

\* the state of a reader's file, index, cursors and fields
readerVars == <<file, cache, index, building, scanPc, scanOffset, scanOut,
                cursor, fields, handles, iter, ret>>

statVars == <<stats, statCache>>

handleVars == <<message, got>>

\* the state the index, the cursors and the fields do not touch
others == <<statVars, handleVars, ds, fieldset>>

\* Python's None; an int, a str or an array is a record with its type
None == [t |-> "None"]

\* no Handle under examination, no call made on it
NoMessage == [name \in {} |-> None]

NoGot == [op |-> "-", name |-> "-", normalise |-> FALSE,
          raised |-> "-", value |-> None]

\* no dataset
NoDataset == <<>>

\* no item asked of a FieldSet yet
NoItem == [i |-> -1, raised |-> "-", reader |-> "-", n |-> 0, offset |-> 0]

\* no FieldSet
NoFieldSet == [sources |-> <<>>, i |-> -1, out |-> <<>>, end |-> "-",
               item |-> NoItem]

\* self._statistics = None
NoStats == [kind |-> "none"]

NoCalls == [memo |-> NoStats, calls |-> 0, computed |-> 0,
            raised |-> "-", returned |-> NoStats]

NoIndex ==
    [built |-> FALSE, offsets |-> <<>>, lengths |-> <<>>,
     scanned |-> FALSE, saved |-> FALSE, nth |-> 0]

NoIter == [on |-> FALSE, pos |-> 0, out |-> <<>>, end |-> "-", reader |-> "-"]

NoRet == [op |-> "-", reader |-> "-", n |-> 0, raised |-> "-", offset |-> 0]

Built == {r \in Readers : index[r].built}

Init ==
    /\ file \in Files
    /\ cache \in Sidecars(file) \cup MisshapenSidecars
    /\ index = [r \in Readers |-> NoIndex]
    /\ building = "-"
    /\ scanPc = "idle"
    /\ scanOffset = 0
    /\ scanOut = <<>>
    /\ cursor = [r \in Readers |-> -1]
    /\ fields = <<>>
    /\ handles = <<>>
    /\ iter = NoIter
    /\ ret = NoRet
    /\ stats = [r \in Readers |-> NoCalls]
    /\ statCache = SidecarNull
    /\ message = NoMessage
    /\ got = NoGot
    /\ ds = NoDataset
    /\ fieldset = NoFieldSet

(***************************************************************************)
(* GRIBReader.index -> GRIBIndex(path): _load_cache, and on a miss         *)
(* _build_index, which consumes the generator pair by pair.                *)
(***************************************************************************)
facade == <<cursor, fields, handles, iter>>

\* GRIBReader.index: if self._index is None
NeedsIndexAlways(r) == TRUE

NeedsIndex(r) == ~index[r].built

\* _load_cache returned True
IndexHit(r) ==
    /\ building = "-"
    /\ NeedsIndex(r)
    /\ LoadCache(cache).hit
    /\ index' = [index EXCEPT ![r] =
                    [built |-> TRUE, offsets |-> LoadCache(cache).offsets,
                     lengths |-> LoadCache(cache).lengths, scanned |-> FALSE,
                     saved |-> FALSE, nth |-> Cardinality(Built) + 1]]
    /\ ret' = [NoRet EXCEPT !.op = "index", !.reader = r]
    /\ UNCHANGED <<others, file, cache, building, scanPc, scanOffset, scanOut, facade>>

\* _load_cache returned False: _build_index opens the generator
IndexMiss(r) ==
    /\ building = "-"
    /\ NeedsIndex(r)
    /\ ~LoadCache(cache).hit
    /\ building' = r
    /\ scanPc' = "run"
    /\ scanOffset' = 0
    /\ scanOut' = <<>>
    /\ UNCHANGED <<others, file, cache, index, ret, facade>>

\* if code != b"GRIB": offset = os.lseek(fd, offset + 1, ...); continue
ScanSkip ==
    /\ scanPc = "run"
    /\ ScanIter(file, scanOffset).kind = "skip"
    /\ scanOffset' = SkipTo(scanOffset)
    /\ UNCHANGED <<others, file, cache, index, building, scanPc, scanOut, ret, facade>>

\* yield offset, length; offset = os.lseek(fd, offset + length, ...)
ScanYield ==
    /\ scanPc = "run"
    /\ ScanIter(file, scanOffset).kind = "yield"
    /\ Len(scanOut) < MaxPairs
    /\ \E length \in {ScanIter(file, scanOffset).length} :
           /\ scanOut' = Append(scanOut, <<scanOffset, length>>)
           /\ IF SeekTo(scanOffset, length) < 0
              THEN /\ scanPc' = "raised"
                   /\ building' = "-"
                   /\ ret' = [NoRet EXCEPT !.op = "index", !.reader = building,
                                           !.raised = "OSError"]
                   /\ UNCHANGED scanOffset
              ELSE /\ scanOffset' = SeekTo(scanOffset, length)
                   /\ UNCHANGED <<scanPc, building, ret>>
    /\ UNCHANGED <<others, file, cache, index, facade>>

\* assert len(buf) == count fails inside get(): the generator raises
\* AssertionError through _build_index and GRIBIndex.__init__
ScanRaise ==
    /\ scanPc = "run"
    /\ ScanIter(file, scanOffset).kind = "raise"
    /\ scanPc' = "raised"
    /\ building' = "-"
    /\ ret' = [NoRet EXCEPT !.op = "index", !.reader = building,
                            !.raised = "AssertionError"]
    /\ UNCHANGED <<others, file, cache, index, scanOffset, scanOut, facade>>

\* len(code) < 4: the generator ends; _build_index stores the lists
\* and calls _save_cache
ScanEnd ==
    /\ scanPc = "run"
    /\ ScanIter(file, scanOffset).kind = "eof"
    /\ scanPc' = "done"
    /\ building' = "-"
    /\ \E outcome \in SaveOutcomes :
         /\ cache' = SaveCache(cache, Offsets(scanOut), Lengths(scanOut), outcome)
         /\ index' = [index EXCEPT ![building] =
                         [built |-> TRUE, offsets |-> Offsets(scanOut),
                          lengths |-> Lengths(scanOut), scanned |-> TRUE,
                          saved |-> (outcome = "written"),
                          nth |-> Cardinality(Built) + 1]]
    /\ ret' = [NoRet EXCEPT !.op = "index", !.reader = building]
    /\ UNCHANGED <<others, file, scanOffset, scanOut, facade>>

(***************************************************************************)
(* GRIBReader.__getitem__, first, __len__ and the GribField they build.    *)
(***************************************************************************)
\* the subscripts the caller tries: the files of FacadeFiles hold at most
\* two messages
Ns == -3..2

\* Python's list subscript offsets[n]
Subscript(seq, n) ==
    IF 0 <= n /\ n < Len(seq) THEN [ok |-> TRUE, value |-> seq[n + 1]]
    ELSE IF n < 0 /\ 0 - Len(seq) <= n
    THEN [ok |-> TRUE, value |-> seq[Len(seq) + n + 1]]
    ELSE [ok |-> FALSE, value |-> 0]

\* GRIBReader.reader: the CodesReader is opened on first use, at position 0
OpenCursor(pos) == IF pos = -1 THEN 0 ELSE pos

\* GribField(reader=..., offset=...): no handle yet
NewField(r, offset) ==
    [cursor |-> r, offset |-> offset, handle |-> 0,
     calls |-> 0, decodes |-> 0, failed |-> "-", scope |-> "held"]

\* GRIBReader.__getitem__(n), once GRIBReader.index holds the index
GetItem(r, n) ==
    /\ building = "-"
    /\ index[r].built
    /\ Len(fields) < MaxFields
    /\ cursor' = [cursor EXCEPT ![r] = OpenCursor(cursor[r])]
    /\ LET at == Subscript(index[r].offsets, n)
       IN  IF at.ok
           THEN /\ fields' = Append(fields, NewField(r, at.value))
                /\ ret' = [op |-> "getitem", reader |-> r, n |-> n,
                           raised |-> "-", offset |-> at.value]
           ELSE /\ fields' = fields
                /\ ret' = [op |-> "getitem", reader |-> r, n |-> n,
                           raised |-> "IndexError", offset |-> 0]
    /\ UNCHANGED <<others, file, cache, index, building, scanPc, scanOffset, scanOut,
                   handles, iter>>

\* GRIBReader.first: GribField(reader=self.reader, offset=0)
First(r) ==
    /\ building = "-"
    /\ Len(fields) < MaxFields
    /\ cursor' = [cursor EXCEPT ![r] = OpenCursor(cursor[r])]
    /\ fields' = Append(fields, NewField(r, 0))
    /\ ret' = [op |-> "first", reader |-> r, n |-> 0, raised |-> "-", offset |-> 0]
    /\ UNCHANGED <<others, file, cache, index, building, scanPc, scanOffset, scanOut,
                   handles, iter>>

\* GRIBReader.__len__, once GRIBReader.index holds the index
Length(r) ==
    /\ building = "-"
    /\ index[r].built
    /\ ret' = [op |-> "len", reader |-> r, n |-> Len(index[r].offsets),
               raised |-> "-", offset |-> 0]
    /\ UNCHANGED <<others, file, cache, index, building, scanPc, scanOffset, scanOut, facade>>

(***************************************************************************)
(* GribField.handle behind every metadata accessor, CodesReader.at_offset, *)
(* and the life of the CodesHandle.                                        *)
(***************************************************************************)
\* CodesHandle(handle, path, offset) from _next_handle: offset is
\* file.tell() before the decode
NewHandle(d, tell) == [start |-> d.start, offset |-> tell, released |-> 0]

\* CodesReader.at_offset: self.file.seek(offset, 0) on the shared cursor,
\* whose position was `pos`; the decode starts where the seek leaves it
AtOffsetNoSeek(pos, offset) == OpenCursor(pos)

AtOffset(pos, offset) == offset

\* GribField.handle: `if self._handle is None`
NeedsDecodeAlways(fld) == TRUE

NeedsDecode(fld) == fld.handle = 0

\* the accessor calls made so far, over all fields
RECURSIVE Calls(_)
Calls(fs) == IF fs = <<>> THEN 0 ELSE Head(fs).calls + Calls(Tail(fs))

\* any accessor (values, shape, datetime, ...) on field i; failed is the
\* error of the field's last accessor call, "-" when it returned
Access(i) ==
    /\ building = "-"
    /\ i \in 1..Len(fields)
    /\ fields[i].scope # "dropped"
    /\ Calls(fields) < MaxCalls
    /\ \E fld \in {fields[i]} :
       \E tell \in {AtOffset(cursor[fld.cursor], fld.offset)} :
       \E d \in {CodesNewFromFile(file, tell)} :
           IF ~NeedsDecode(fld)
           THEN /\ fields' = [fields EXCEPT ![i].calls = @ + 1]
                /\ UNCHANGED <<cursor, handles>>
           ELSE /\ cursor' = [cursor EXCEPT ![fld.cursor] = d.end]
                /\ IF d.kind = "handle"
                   THEN /\ handles' = Append(handles, NewHandle(d, tell))
                        /\ fields' = [fields EXCEPT ![i].calls = @ + 1,
                                                    ![i].decodes = @ + 1,
                                                    ![i].handle = Len(handles) + 1]
                   ELSE /\ handles' = handles
                        /\ fields' = [fields EXCEPT ![i].calls = @ + 1,
                                                    ![i].decodes = @ + 1,
                                                    ![i].failed =
                                                        IF d.kind = "none"
                                                        THEN "StopIteration"
                                                        ELSE "DecodeError"]
    /\ UNCHANGED <<others, file, cache, index, building, scanPc, scanOffset, scanOut,
                   iter, ret>>

\* GribField.__enter__: return self
Enter(i) ==
    /\ building = "-"
    /\ i \in 1..Len(fields)
    /\ fields[i].scope = "held"
    /\ fields' = [fields EXCEPT ![i].scope = "with"]
    /\ UNCHANGED <<others, file, cache, index, building, scanPc, scanOffset, scanOut,
                   cursor, handles, iter, ret>>

\* GribField.__exit__: pass
Exit(i) ==
    /\ building = "-"
    /\ i \in 1..Len(fields)
    /\ fields[i].scope = "with"
    /\ fields' = [fields EXCEPT ![i].scope = "exited"]
    /\ UNCHANGED <<others, file, cache, index, building, scanPc, scanOffset, scanOut,
                   cursor, handles, iter, ret>>

\* the caller lets go of its last reference to field i
Drop(i) ==
    /\ building = "-"
    /\ i \in 1..Len(fields)
    /\ fields[i].scope \in {"held", "exited"}
    /\ fields' = [fields EXCEPT ![i].scope = "dropped"]
    /\ UNCHANGED <<others, file, cache, index, building, scanPc, scanOffset, scanOut,
                   cursor, handles, iter, ret>>

\* CodesHandle.__del__: eccodes_codes_release(self.handle), run by the
\* interpreter some time after the handle became unreachable
Collect(h) ==
    /\ h \in 1..Len(handles)
    /\ handles[h].released = 0
    /\ \E i \in 1..Len(fields) : fields[i].handle = h /\ fields[i].scope = "dropped"
    /\ handles' = [handles EXCEPT ![h].released = @ + 1]
    /\ UNCHANGED <<others, file, cache, index, building, scanPc, scanOffset, scanOut,
                   cursor, fields, iter, ret>>

(***************************************************************************)
(* GRIBReader.__iter__ -> GRIBIterator(path), on a CodesReader of its own. *)
(***************************************************************************)
\* offset = self.reader.offset, read before handle = next(self.reader)
IterFieldAfter(tell, d) == [offset |-> d.end, start |-> d.start]

IterField(tell, d) == [offset |-> tell, start |-> d.start]

\* GRIBIterator.__init__: self.reader = CodesReader(path), a cursor of the
\* iterator's own; `own` is its position, `shared` the position of the
\* cursor GRIBReader.reader holds for random access
IterPositionShared(own, shared) == OpenCursor(shared)

IterPosition(own, shared) == own

IterStart(r) ==
    /\ building = "-"
    /\ ~iter.on
    /\ iter' = [on |-> TRUE, pos |-> 0, out |-> <<>>, end |-> "-", reader |-> r]
    /\ UNCHANGED <<others, file, cache, index, building, scanPc, scanOffset, scanOut,
                   cursor, fields, handles, ret>>

\* GRIBIterator.__next__: offset = self.reader.offset; handle = next(reader);
\* GribField(handle=handle, reader=self.reader, offset=offset)
IterNext ==
    /\ building = "-"
    /\ iter.on
    /\ iter.end = "-"
    /\ \E tell \in {IterPosition(iter.pos, cursor[iter.reader])} :
       \E d \in {CodesNewFromFile(file, tell)} :
           IF d.kind = "handle"
           THEN iter' = [iter EXCEPT !.pos = d.end,
                            !.out = Append(@, IterField(tell, d))]
           ELSE iter' = [iter EXCEPT !.pos = d.end,
                            !.end = IF d.kind = "none" THEN "StopIteration"
                                    ELSE "DecodeError"]
    /\ UNCHANGED <<others, file, cache, index, building, scanPc, scanOffset, scanOut,
                   cursor, fields, handles, ret>>

\* `for s in self`: a GRIBIterator run from position 0 to its end, with the
\* fields it produces and the exception that ends it
RECURSIVE IterateFrom(_, _)
IterateFrom(f, pos) ==
    LET More(d, rest) == [out |-> <<IterField(pos, d)>> \o rest.out, end |-> rest.end]
        Step(d) ==
            IF d.kind = "handle" THEN More(d, IterateFrom(f, d.end))
            ELSE [out |-> <<>>,
                  end |-> IF d.kind = "none" THEN "StopIteration" ELSE "DecodeError"]
    IN  Step(CodesNewFromFile(f, pos))

IterateAll(f) == IterateFrom(f, 0)

(***************************************************************************)
(* GRIBReader.statistics: the memo, the statistics sidecar, the loop over  *)
(* the fields, the write of the sidecar.                                   *)
(***************************************************************************)
\* auxiliary_cache_file("grib-statistics--", path, content="null"): the
\* cache layer creates the sidecar with the text null when there is none
AuxiliaryCacheFile(c) == IF c.kind = "missing" THEN SidecarNull ELSE c

\* with open(cache) as f: json.load(f)
JsonLoad(c) ==
    IF c.kind \in {"missing", "unreadable"}
    THEN [raised |-> "load:OSError", value |-> NoStats]
    ELSE IF c.kind = "garbage"
    THEN [raised |-> "load:JSONDecodeError", value |-> NoStats]
    ELSE IF c.kind = "null" THEN [raised |-> "-", value |-> NoStats]
    ELSE IF c.kind = "json" THEN [raised |-> "-", value |-> c.value]
    ELSE [raised |-> "-", value |-> c]

\* if self._statistics is not None
HasStatisticsNever(memo) == FALSE

HasStatistics(memo) == memo # NoStats

\* s.values of a field the iteration produced: one value per message,
\* here the length its header gives
Values(f, fld) == MessageLength(f, fld.start).length

RECURSIVE Sum(_)
Sum(vs) == IF vs = <<>> THEN 0 ELSE Head(vs) + Sum(Tail(vs))

ISqrt(n) == CHOOSE q \in 0..n : q * q <= n /\ n < (q + 1) * (q + 1)

\* the record statistics() builds from the values of count >= 1 fields,
\* in whole numbers
StatRecord(vs) ==
    LET Record(count, total, squares) ==
            [minimum |-> CHOOSE v \in {vs[i] : i \in 1..count} :
                            \A i \in 1..count : v <= vs[i],
             maximum |-> CHOOSE v \in {vs[i] : i \in 1..count} :
                            \A i \in 1..count : v >= vs[i],
             average |-> total \div count,
             stdev |-> ISqrt((squares \div count)
                             - (total \div count) * (total \div count)),
             count |-> count]
    IN  Record(Len(vs), Sum(vs), Sum([i \in 1..Len(vs) |-> vs[i] * vs[i]]))

\* with open(cache, "w") as f: json.dump(self._statistics, f)
StatSave(c, rec, outcome) ==
    IF outcome = "written" THEN [kind |-> "json", value |-> rec]
    ELSE IF outcome = "partial" THEN SidecarGarbage
    ELSE c

\* the statistics sidecars a file may be found with: none, the one the
\* cache layer creates, an unreadable one, a cut one, a JSON list, and the
\* one an earlier statistics() wrote for this file
StatSidecars(f) ==
    LET Earlier(it) ==
            IF it.end = "StopIteration" /\ it.out # <<>>
            THEN {StatSave(SidecarNull,
                           StatRecord([i \in 1..Len(it.out) |-> Values(f, it.out[i])]),
                           "written")}
            ELSE {}
    IN  {SidecarNull, SidecarMissing, SidecarUnreadable, SidecarGarbage, SidecarList}
        \cup Earlier(IterateAll(f))

\* GRIBReader.statistics() on reader r
Statistics(r) ==
    /\ building = "-"
    /\ stats[r].calls < MaxStats
    /\ IF HasStatistics(stats[r].memo)
       THEN /\ stats' = [stats EXCEPT ![r].calls = @ + 1, ![r].raised = "-",
                                      ![r].returned = stats[r].memo]
            /\ statCache' = statCache
       ELSE \E c \in {AuxiliaryCacheFile(statCache)} :
            \E ld \in {JsonLoad(c)}, it \in {IterateAll(file)} :
              IF ld.raised # "-"
              THEN /\ stats' = [stats EXCEPT ![r].calls = @ + 1,
                                             ![r].raised = ld.raised,
                                             ![r].returned = NoStats]
                   /\ statCache' = c
              ELSE IF HasStatistics(ld.value)
              THEN /\ stats' = [stats EXCEPT ![r].calls = @ + 1, ![r].raised = "-",
                                             ![r].memo = ld.value,
                                             ![r].returned = ld.value]
                   /\ statCache' = c
              ELSE IF it.end # "StopIteration" \/ it.out = <<>>
              THEN \* the decoder fails in the loop, or np.isnan(None) after it
                   /\ stats' = [stats EXCEPT ![r].calls = @ + 1,
                                             ![r].computed = @ + 1,
                                             ![r].raised =
                                                 IF it.end # "StopIteration"
                                                 THEN it.end ELSE "TypeError",
                                             ![r].returned = NoStats]
                   /\ statCache' = c
              ELSE \E outcome \in SaveOutcomes :
                   \E rec \in {StatRecord([i \in 1..Len(it.out) |->
                                              Values(file, it.out[i])])} :
                   /\ stats' = [stats EXCEPT ![r].calls = @ + 1,
                                             ![r].computed = @ + 1,
                                             ![r].memo = rec,
                                             ![r].raised =
                                                 IF outcome = "written" THEN "-"
                                                 ELSE "save:OSError",
                                             ![r].returned =
                                                 IF outcome = "written" THEN rec
                                                 ELSE NoStats]
                   /\ statCache' = StatSave(c, rec, outcome)
    /\ UNCHANGED <<readerVars, handleVars, ds, fieldset>>

(***************************************************************************)
(* CodesHandle.get, and GribField.values, shape and to_numpy over it.      *)
(* `message` is one decoded message as the decoder presents it: for each   *)
(* key either a value or the key-not-found signal.                         *)
(***************************************************************************)
PyInt(n) == [t |-> "int", v |-> n]

PyStr(x) == [t |-> "str", v |-> x]

PyArray(seq) == [t |-> "array", v |-> seq]

Found(value) == [kind |-> "value", value |-> value]

NotFound == [kind |-> "KeyValueNotFoundError"]

\* eccodes.codes_get_values, codes_get_double_array and codes_get
CodesGetValues(msg) == msg["values"]

CodesGetDoubleArray(msg, name) == msg[name]

CodesGet(msg, name) == msg[name]

\* def missing_is_none(x): return None if x == 2147483647 else x
MissingIsNoneNever(x) == x

MissingIsNone(x) == IF x.t = "int" /\ x.v = Sentinel THEN None ELSE x

\* CodesHandle.get(name): the three decoder calls inside one try, and
\* except eccodes.KeyValueNotFoundError: return None
GetScalarGuarded(msg, name) ==
    LET Raw(out) ==
            IF out.kind = "value" THEN [raised |-> "-", value |-> out.value]
            ELSE [raised |-> out.kind, value |-> None]
        Except(out) ==
            IF out.kind = "KeyValueNotFoundError"
            THEN [raised |-> "-", value |-> None]
            ELSE Raw(out)
    IN  IF name = "values" THEN Raw(CodesGetValues(msg))
        ELSE IF name \in {"distinctLatitudes", "distinctLongitudes"}
        THEN Raw(CodesGetDoubleArray(msg, name))
        ELSE Except(CodesGet(msg, name))

Get(msg, name) ==
    LET Except(out) ==
            IF out.kind = "KeyValueNotFoundError"
            THEN [raised |-> "-", value |-> None]
            ELSE IF out.kind = "value" THEN [raised |-> "-", value |-> out.value]
            ELSE [raised |-> out.kind, value |-> None]
    IN  IF name = "values" THEN Except(CodesGetValues(msg))
        ELSE IF name \in {"distinctLatitudes", "distinctLongitudes"}
        THEN Except(CodesGetDoubleArray(msg, name))
        ELSE Except(CodesGet(msg, name))

\* GribField.shape: (missing_is_none(get("Nj")), missing_is_none(get("Ni")))
Shape(msg) ==
    LET Pair(nj, ni) ==
            IF nj.raised # "-" THEN [raised |-> nj.raised, value |-> None]
            ELSE IF ni.raised # "-" THEN [raised |-> ni.raised, value |-> None]
            ELSE [raised |-> "-",
                  value |-> <<MissingIsNone(nj.value), MissingIsNone(ni.value)>>]
    IN  Pair(Get(msg, "Nj"), Get(msg, "Ni"))

\* numpy's values.reshape((nj, ni)): None has no reshape; the sizes must
\* agree (tested by division: nj * ni may not fit an int)
Reshape(values, nj, ni) ==
    IF values.t # "array" THEN [raised |-> "AttributeError", value |-> None]
    ELSE IF nj.t # "int" \/ ni.t # "int"
    THEN [raised |-> "TypeError", value |-> None]
    ELSE IF \/ nj.v <= 0 \/ ni.v <= 0
            \/ Len(values.v) % nj.v # 0
            \/ Len(values.v) \div nj.v # ni.v
    THEN [raised |-> "ValueError", value |-> None]
    ELSE [raised |-> "-",
          value |-> [t |-> "array2",
                     v |-> [i \in 1..nj.v |->
                              [j \in 1..ni.v |-> values.v[(i - 1) * ni.v + j]]]]]

\* GribField.to_numpy(normalise)
ToNumpy(msg, normalise) ==
    LET Shaped(shape, values) ==
            IF shape.raised # "-" THEN shape
            ELSE IF shape.value[1] = None \/ shape.value[2] = None THEN values
            ELSE IF values.raised # "-" THEN values
            ELSE Reshape(values.value, shape.value[1], shape.value[2])
    IN  Shaped(Shape(msg), Get(msg, "values"))

\* the keys asked of a Handle, and the messages examined
Keys == {"Nj", "Ni", "values", "distinctLatitudes", "shortName"}

Messages ==
    { [name \in Keys |->
          IF name = "Nj" THEN nj ELSE IF name = "Ni" THEN ni
          ELSE IF name = "values" THEN vs
          ELSE IF name = "distinctLatitudes" THEN lat ELSE sn] :
        nj \in {Found(PyInt(Sentinel)), Found(PyInt(1)), Found(PyInt(2)), NotFound},
        ni \in {Found(PyInt(Sentinel)), Found(PyInt(2)), Found(PyInt(3)), NotFound},
        vs \in {Found(PyArray([i \in 1..n |-> 10 + i])) : n \in {2, 4, 6}}
                \cup {NotFound},
        lat \in {Found(PyArray(<<-45, 45>>)), NotFound},
        sn \in {Found(PyStr("t")), NotFound} }

\* handle.get(name)
HandleGet(name) ==
    /\ message # NoMessage
    /\ \E res \in {Get(message, name)} :
         got' = [op |-> "get", name |-> name, normalise |-> FALSE,
                 raised |-> res.raised, value |-> res.value]
    /\ UNCHANGED <<readerVars, statVars, message, ds, fieldset>>

\* field.shape
FieldShape ==
    /\ message # NoMessage
    /\ \E res \in {Shape(message)} :
         got' = [op |-> "shape", name |-> "-", normalise |-> FALSE,
                 raised |-> res.raised, value |-> res.value]
    /\ UNCHANGED <<readerVars, statVars, message, ds, fieldset>>

\* field.to_numpy(normalise)
FieldToNumpy(normalise) ==
    /\ message # NoMessage
    /\ \E res \in {ToNumpy(message, normalise)} :
         got' = [op |-> "to_numpy", name |-> "-", normalise |-> normalise,
                 raised |-> res.raised, value |-> res.value]
    /\ UNCHANGED <<readerVars, statVars, message, ds, fieldset>>

(***************************************************************************)
(* Selection and ordering of a dataset: sel(request) keeps the fields     *)
(* whose metadata is among the values the request lists for each key,     *)
(* order_by(order) sorts them key by key.  A field is known here by its   *)
(* param and its level.                                                    *)
(***************************************************************************)
Params == {"t", "u", "v"}
Levels == {500, 850, 1000}

\* the code point of a one-letter param: Python compares str by code point
Ord(p) ==
    CASE p = "t" -> 116
      [] p = "u" -> 117
      [] p = "v" -> 118

\* the fields of the source, in the order they are stored
Fixtures ==
    << [param |-> "u", level |-> 850],  [param |-> "t", level |-> 1000],
       [param |-> "v", level |-> 500],  [param |-> "t", level |-> 500],
       [param |-> "u", level |-> 1000], [param |-> "v", level |-> 850],
       [param |-> "u", level |-> 500],  [param |-> "t", level |-> 850],
       [param |-> "v", level |-> 1000] >>

\* the value lists a request or an order may give over S: 1..MaxValues
\* distinct values, in any order
Lists(S) ==
    {l \in UNION {[1..n -> S] : n \in 1..MaxValues} :
        \A i, j \in DOMAIN l : i # j => l[i] # l[j]}

Requests == [variable : Lists(Params), level : Lists(Levels)]

\* field.metadata(key) for the two keys of a request
Metadata(f, key) == IF key = "level" THEN f.level ELSE f.param

Among(values, v) == \E i \in DOMAIN values : values[i] = v

Matches(f, request) ==
    /\ Among(request.variable, f.param)
    /\ Among(request.level, f.level)

\* ds.sel(**request): the matching fields, in the order of the source
SelFields(fs, request) == SelectSeq(fs, LAMBDA f : Matches(f, request))

Ascending == [dir |-> "ascending", values |-> <<>>]
Descending == [dir |-> "descending", values |-> <<>>]
Explicit(values) == [dir |-> "list", values |-> values]

\* what an order may say of a key whose requested values are `values`:
\* a direction, or the requested values in an order of its choice
Bys(values) ==
    {Ascending, Descending}
    \cup {Explicit(l) : l \in {m \in Lists({values[i] : i \in DOMAIN values}) :
                                   Len(m) = Len(values)}}

\* the order_by arguments over a request: one or both keys, in either
\* order, each with a direction or a value list
Orders(request) ==
    {<<[key |-> "level", by |-> b]>> : b \in Bys(request.level)}
    \cup {<<[key |-> "variable", by |-> b]>> : b \in Bys(request.variable)}
    \cup {<<[key |-> "level", by |-> b], [key |-> "variable", by |-> c]>> :
             b \in Bys(request.level), c \in Bys(request.variable)}
    \cup {<<[key |-> "variable", by |-> c], [key |-> "level", by |-> b]>> :
             b \in Bys(request.level), c \in Bys(request.variable)}

\* a value in its natural order: an int as it is, a str by code point
Natural(key, v) == IF key = "level" THEN v ELSE Ord(v)

Position(values, v) == CHOOSE i \in DOMAIN values : values[i] = v

RankAscending(o, v) ==
    IF o.by.dir = "list" THEN Position(o.by.values, v) ELSE Natural(o.key, v)

\* where value v of key o.key stands under o: smaller sorts first
Rank(o, v) ==
    CASE o.by.dir = "ascending"  -> Natural(o.key, v)
      [] o.by.dir = "descending" -> 0 - Natural(o.key, v)
      [] o.by.dir = "list"       -> Position(o.by.values, v)

\* the comparison of two fields: the first key of the order on which
\* they differ decides
RECURSIVE Compare(_, _, _)
Compare(order, a, b) ==
    IF order = <<>> THEN 0
    ELSE IF Rank(Head(order), Metadata(a, Head(order).key))
              < Rank(Head(order), Metadata(b, Head(order).key)) THEN -1
    ELSE IF Rank(Head(order), Metadata(a, Head(order).key))
              > Rank(Head(order), Metadata(b, Head(order).key)) THEN 1
    ELSE Compare(Tail(order), a, b)

\* f put into a sorted sequence behind every field that is not after it
RECURSIVE Insert(_, _, _)
Insert(order, sorted, f) ==
    IF sorted = <<>> THEN <<f>>
    ELSE IF Compare(order, sorted[Len(sorted)], f) <= 0
         THEN Append(sorted, f)
    ELSE Append(Insert(order, SubSeq(sorted, 1, Len(sorted) - 1), f),
                sorted[Len(sorted)])

\* ds.order_by(order): a stable sort of the fields under Compare
RECURSIVE OrderFields(_, _)
OrderFields(order, fs) ==
    IF fs = <<>> THEN <<>>
    ELSE Insert(order, OrderFields(order, SubSeq(fs, 1, Len(fs) - 1)),
                fs[Len(fs)])

NoRequest == [variable |-> <<>>, level |-> <<>>]
NoOrder == <<>>

\* ds = ds.sel(**request)
Sel(request) ==
    /\ ds.stage = "all"
    /\ ds' = [ds EXCEPT !.stage = "selected", !.request = request,
                        !.selected = SelFields(ds.fields, request),
                        !.fields = SelFields(ds.fields, request)]
    /\ UNCHANGED <<readerVars, statVars, handleVars, fieldset>>

\* ds = ds.order_by(order)
OrderBy(order) ==
    /\ ds.stage = "selected"
    /\ order \in Orders(ds.request)
    /\ ds' = [ds EXCEPT !.stage = "ordered", !.order = order,
                        !.fields = OrderFields(order, ds.fields)]
    /\ UNCHANGED <<readerVars, statVars, handleVars, fieldset>>

(***************************************************************************)
(* FieldSet over the readers of its sources, and FieldSetIterator.         *)
(***************************************************************************)
\* the readers a FieldSet is made over: one, or two of the same path
SourceLists == {<<"r1">>, <<"r1", "r2">>}

\* FieldSet.__getitem__(i): j = i; for idx in self.indexes:
\* if j <= len(idx): return Field(idx[j]); j -= len(idx);
\* raise IndexError(i).  idx[j] is GRIBReader.__getitem__(j), which raises
\* IndexError from the list subscript
RECURSIVE FieldSetGetItem(_, _, _)
FieldSetGetItem(indexes, i, j) ==
    LET Item(idx, at) ==
            IF at.ok
            THEN [i |-> i, raised |-> "-", reader |-> idx, n |-> j,
                  offset |-> at.value]
            ELSE [i |-> i, raised |-> "IndexError", reader |-> idx, n |-> j,
                  offset |-> 0]
    IN  IF indexes = <<>>
        THEN [i |-> i, raised |-> "IndexError", reader |-> "-", n |-> j,
              offset |-> 0]
        ELSE IF j <= Len(index[Head(indexes)].offsets)
        THEN Item(Head(indexes), Subscript(index[Head(indexes)].offsets, j))
        ELSE FieldSetGetItem(Tail(indexes), i,
                             j - Len(index[Head(indexes)].offsets))

\* the reader whose __getitem__ was called opened its cursor
Reached(item) ==
    [r \in Readers |-> IF r = item.reader THEN OpenCursor(cursor[r])
                       ELSE cursor[r]]

SourcesBuilt(sources) ==
    \A k \in DOMAIN sources : index[sources[k]].built

\* the positions the caller asks of a FieldSet
Is == 0..5

\* fieldset[i], once every reader holds its index
FieldSetItem(i) ==
    /\ building = "-"
    /\ SourcesBuilt(fieldset.sources)
    /\ \E item \in {FieldSetGetItem(fieldset.sources, i, i)} :
         /\ fieldset' = [fieldset EXCEPT !.item = item]
         /\ cursor' = Reached(item)
    /\ UNCHANGED <<statVars, handleVars, ds, file, cache, index, building,
                   scanPc, scanOffset, scanOut, fields, handles, iter, ret>>

\* FieldSetIterator.__next__: self.i += 1; return self.fieldset[self.i],
\* StopIteration on IndexError
FieldSetNext ==
    /\ building = "-"
    /\ SourcesBuilt(fieldset.sources)
    /\ fieldset.end = "-"
    /\ \E item \in {FieldSetGetItem(fieldset.sources, fieldset.i + 1,
                                     fieldset.i + 1)} :
         /\ fieldset' =
              IF item.raised = "-"
              THEN [fieldset EXCEPT !.i = @ + 1, !.out = Append(@, item)]
              ELSE [fieldset EXCEPT !.i = @ + 1, !.end = "StopIteration"]
         /\ cursor' = Reached(item)
    /\ UNCHANGED <<statVars, handleVars, ds, file, cache, index, building,
                   scanPc, scanOffset, scanOut, fields, handles, iter, ret>>

IndexNext ==
    \/ \E r \in Readers : IndexHit(r)
    \/ \E r \in Readers : IndexMiss(r)
    \/ ScanSkip
    \/ ScanYield
    \/ ScanRaise
    \/ ScanEnd
    \/ \E r \in Readers : Length(r)

IndexSpec == Init /\ [][IndexNext]_vars

(***************************************************************************)
(* Specifications over the same state and the same actions.                *)
(*   IndexSpec: the index construction of every reader, for every file     *)
(*              and every sidecar.                                         *)
(*   Spec:      one reader, from its index to random access: __getitem__,  *)
(*              first, and the accessors of the fields they return.        *)
(*   LifeSpec:  one reader's fields through with-blocks, to the release    *)
(*              of their handles.                                          *)
(*   IterSpec:  one reader's whole-file iteration, beside random access.   *)
(* The last three start from the sidecar the cache layer creates ("null")  *)
(* or from the one an earlier run wrote.  The actions a specification      *)
(* leaves out change only state its properties do not read: Enter, Exit    *)
(* and Drop change a field's scope, Collect a handle's release count,      *)
(* IterStart and IterNext the iterator.                                    *)
(***************************************************************************)
Reader1 == {"r1"}

FacadeInit ==
    /\ file \in FacadeFiles
    /\ cache \in {SidecarNull} \cup {c \in Sidecars(file) : LoadCache(c).hit}
    /\ index = [r \in Readers |-> NoIndex]
    /\ building = "-"
    /\ scanPc = "idle"
    /\ scanOffset = 0
    /\ scanOut = <<>>
    /\ cursor = [r \in Readers |-> -1]
    /\ fields = <<>>
    /\ handles = <<>>
    /\ iter = NoIter
    /\ ret = NoRet
    /\ stats = [r \in Readers |-> NoCalls]
    /\ statCache = SidecarNull
    /\ message = NoMessage
    /\ got = NoGot
    /\ ds = NoDataset
    /\ fieldset = NoFieldSet

Index1 ==
    \/ \E r \in Reader1 : IndexHit(r)
    \/ \E r \in Reader1 : IndexMiss(r)
    \/ ScanSkip
    \/ ScanYield
    \/ ScanRaise
    \/ ScanEnd

Next ==
    \/ Index1
    \/ \E r \in Reader1, n \in Ns : GetItem(r, n)
    \/ \E r \in Reader1 : First(r)
    \/ \E i \in 1..MaxFields : Access(i)

Spec == FacadeInit /\ [][Next]_vars

LifeNext ==
    \/ Index1
    \/ \E r \in Reader1, n \in Ns : GetItem(r, n)
    \/ \E i \in 1..MaxFields : Access(i)
    \/ \E i \in 1..MaxFields : Enter(i)
    \/ \E i \in 1..MaxFields : Exit(i)
    \/ \E i \in 1..MaxFields : Drop(i)
    \/ \E h \in 1..MaxFields : Collect(h)

LifeSpec == FacadeInit /\ [][LifeNext]_vars

IterationNext ==
    \/ Index1
    \/ \E r \in Reader1 : IterStart(r)
    \/ IterNext
    \/ \E r \in Reader1, n \in Ns : GetItem(r, n)
    \/ \E i \in 1..MaxFields : Access(i)

IterSpec == FacadeInit /\ [][IterationNext]_vars

\* StatSpec: statistics() on two readers of one path, beside the
\* construction of the index, from every statistics sidecar the file may
\* be found with
StatInit ==
    /\ file \in FacadeFiles
    /\ cache \in {SidecarNull} \cup {c \in Sidecars(file) : LoadCache(c).hit}
    /\ index = [r \in Readers |-> NoIndex]
    /\ building = "-"
    /\ scanPc = "idle"
    /\ scanOffset = 0
    /\ scanOut = <<>>
    /\ cursor = [r \in Readers |-> -1]
    /\ fields = <<>>
    /\ handles = <<>>
    /\ iter = NoIter
    /\ ret = NoRet
    /\ stats = [r \in Readers |-> NoCalls]
    /\ statCache \in StatSidecars(file)
    /\ message = NoMessage
    /\ got = NoGot
    /\ ds = NoDataset
    /\ fieldset = NoFieldSet

StatNext ==
    \/ Index1
    \/ \E r \in Readers : Statistics(r)

StatSpec == StatInit /\ [][StatNext]_vars

\* HandleSpec: the calls on one materialized Handle and its Field, for
\* every message of Messages
HandleInit ==
    /\ file = <<>>
    /\ cache = SidecarNull
    /\ index = [r \in Readers |-> NoIndex]
    /\ building = "-"
    /\ scanPc = "idle"
    /\ scanOffset = 0
    /\ scanOut = <<>>
    /\ cursor = [r \in Readers |-> -1]
    /\ fields = <<>>
    /\ handles = <<>>
    /\ iter = NoIter
    /\ ret = NoRet
    /\ stats = [r \in Readers |-> NoCalls]
    /\ statCache = SidecarNull
    /\ message \in Messages
    /\ got = NoGot
    /\ ds = NoDataset
    /\ fieldset = NoFieldSet

HandleNext ==
    \/ \E name \in Keys : HandleGet(name)
    \/ FieldShape
    \/ \E normalise \in BOOLEAN : FieldToNumpy(normalise)

HandleSpec == HandleInit /\ [][HandleNext]_vars

\* OrderSpec: a dataset over the whole source, selected by a request and
\* then ordered
OrderInit ==
    /\ file = <<>>
    /\ cache = SidecarNull
    /\ index = [r \in Readers |-> NoIndex]
    /\ building = "-"
    /\ scanPc = "idle"
    /\ scanOffset = 0
    /\ scanOut = <<>>
    /\ cursor = [r \in Readers |-> -1]
    /\ fields = <<>>
    /\ handles = <<>>
    /\ iter = NoIter
    /\ ret = NoRet
    /\ stats = [r \in Readers |-> NoCalls]
    /\ statCache = SidecarNull
    /\ message = NoMessage
    /\ got = NoGot
    /\ ds = [stage |-> "all", fields |-> Fixtures, request |-> NoRequest,
             selected |-> <<>>, order |-> NoOrder]
    /\ fieldset = NoFieldSet

OrderNext ==
    \/ \E request \in Requests : Sel(request)
    \/ \E order \in Orders(ds.request) : OrderBy(order)

OrderSpec == OrderInit /\ [][OrderNext]_vars

\* FieldSetSpec: a FieldSet over one or two readers of a file, each
\* constructing its index, asked for items and iterated
FieldSetInit ==
    /\ file \in FacadeFiles
    /\ cache \in {SidecarNull} \cup {c \in Sidecars(file) : LoadCache(c).hit}
    /\ index = [r \in Readers |-> NoIndex]
    /\ building = "-"
    /\ scanPc = "idle"
    /\ scanOffset = 0
    /\ scanOut = <<>>
    /\ cursor = [r \in Readers |-> -1]
    /\ fields = <<>>
    /\ handles = <<>>
    /\ iter = NoIter
    /\ ret = NoRet
    /\ stats = [r \in Readers |-> NoCalls]
    /\ statCache = SidecarNull
    /\ message = NoMessage
    /\ got = NoGot
    /\ ds = NoDataset
    /\ \E sources \in SourceLists :
         fieldset = [NoFieldSet EXCEPT !.sources = sources]

FieldSetSpecNext ==
    \/ \E r \in Readers : IndexHit(r)
    \/ \E r \in Readers : IndexMiss(r)
    \/ ScanSkip
    \/ ScanYield
    \/ ScanRaise
    \/ ScanEnd
    \/ \E i \in Is : FieldSetItem(i)
    \/ FieldSetNext

FieldSetSpec == FieldSetInit /\ [][FieldSetSpecNext]_vars

\* ReaderSpec: every operation of one reader that reads its index, and
\* statistics(), from the statistics sidecar the cache layer creates or
\* the one an earlier run wrote
ReaderInit ==
    /\ StatInit
    /\ statCache.kind \in {"null", "json"}

ReaderNext ==
    \/ Index1
    \/ \E r \in Reader1 : Length(r)
    \/ \E r \in Reader1, n \in Ns : GetItem(r, n)
    \/ \E r \in Reader1 : First(r)
    \/ \E r \in Reader1 : IterStart(r)
    \/ IterNext
    \/ \E r \in Reader1 : Statistics(r)

ReaderSpec == ReaderInit /\ [][ReaderNext]_vars

(***************************************************************************)
(* Properties.                                                             *)
(***************************************************************************)
RECURSIVE TotalLen(_)
TotalLen(ms) == IF ms = <<>> THEN 0 ELSE Len(Head(ms)) + TotalLen(Tail(ms))

\* C1: when the file is the concatenation of N well-formed messages (any
\* mix of editions), the scan raises nothing and ends having delivered
\* exactly N pairs, in file order: the first at offset 0, each next one at
\* the previous offset + length, the last ending at the file size.
C1_ScanTilesFile ==
    \A ms \in MsgSeqs :
        file = Concat(ms) =>
            /\ scanPc # "raised"
            /\ scanPc = "done" =>
                 /\ Len(scanOut) = Len(ms)
                 /\ \A i \in 1..Len(scanOut) :
                      /\ scanOut[i][1] = TotalLen(SubSeq(ms, 1, i - 1))
                      /\ scanOut[i][2] = Len(ms[i])
                      /\ i = 1 => scanOut[i][1] = 0
                      /\ i > 1 => scanOut[i][1] = scanOut[i - 1][1] + scanOut[i - 1][2]
                      /\ i = Len(scanOut) => scanOut[i][1] + scanOut[i][2] = Len(file)

\* a finished scan of a two-message file of both editions, the first
\* one with the edition-1 length correction
C1_Witness ==
    /\ file = MsgQ23 \o MsgE2
    /\ scanPc = "done"
    /\ scanOut = << <<0, Len(MsgQ23)>>, <<Len(MsgQ23), Len(MsgE2)>> >>

\* the sidecars C4 names: missing, unreadable, not JSON, not a record,
\* a record without a version, a record of another version
BadSidecar(c) ==
    \/ c.kind \in {"missing", "unreadable", "garbage", "null", "list"}
    \/ c.kind = "dict" /\ ("version" \notin c.keys \/ c.version # VERSION)

\* C4: a construction that finds such a sidecar does not fail on it: the
\* load is a miss, the scanner runs, and the index it ends with holds the
\* offsets and lengths of a scan of the source file; when a construction
\* does raise, the scan of the file itself raises.
C4_BadSidecarIsMiss ==
    [][ /\ \A r \in Readers :
             (~index[r].built /\ index'[r].built /\ BadSidecar(cache)) =>
                 /\ index'[r].scanned
                 /\ ScanAll(file).end = "eof"
                 /\ index'[r].offsets = Offsets(ScanAll(file).pairs)
                 /\ index'[r].lengths = Lengths(ScanAll(file).pairs)
        /\ (ret'.op = "index" /\ ret'.raised # "-" /\ ret # ret') =>
               ScanAll(file).end = "raise"
      ]_vars

\* an index of two messages built by scanning, beside a sidecar of another
\* version that the failed write left in place
C4_Witness ==
    \E r \in Readers :
        /\ index[r].built
        /\ index[r].scanned
        /\ index[r].nth = 1
        /\ cache = SidecarOldVersion
        /\ Len(index[r].offsets) = 2

\* C5 as stated: of two constructions for the same unmodified file, the
\* second has the offsets and lengths of the first and did not scan.
C5_SecondBuildNeverScans ==
    \A r1, r2 \in Readers :
        (index[r1].built /\ index[r2].built /\ index[r1].nth < index[r2].nth) =>
            /\ index[r2].offsets = index[r1].offsets
            /\ index[r2].lengths = index[r1].lengths
            /\ ~index[r2].scanned

\* C5, amended: the second construction has the offsets and lengths of the
\* first; it loads the sidecar and does not scan when the first one loaded
\* the sidecar itself or wrote it successfully.
C5_SecondBuildLoadsWrittenSidecar ==
    \A r1, r2 \in Readers :
        (index[r1].built /\ index[r2].built /\ index[r1].nth < index[r2].nth) =>
            /\ index[r2].offsets = index[r1].offsets
            /\ index[r2].lengths = index[r1].lengths
            /\ (index[r1].saved \/ ~index[r1].scanned) => ~index[r2].scanned

\* a first construction that scanned two messages and wrote the sidecar,
\* and a second one that loaded it
C5_Witness ==
    \E r1, r2 \in Readers :
        /\ index[r1].built /\ index[r1].nth = 1
        /\ index[r1].scanned /\ index[r1].saved
        /\ index[r2].built /\ index[r2].nth = 2
        /\ ~index[r2].scanned
        /\ Len(index[r2].offsets) = 2
        /\ index[r2].lengths = index[r1].lengths

\* C8: a header cut short ends the scan as "no more messages": the
\* generator raises no AssertionError to its consumer.
C8_TruncatedHeaderEndsQuietly ==
    ~(scanPc = "raised" /\ ret.op = "index" /\ ret.raised = "AssertionError")

\* C9: the scan is finite.  A pass of the loop is a function of `offset`
\* alone, so the scan ends only if every pass that continues the loop
\* moves `offset` forward; a pass that leaves it in place repeats for ever.
C9_ScanAdvances ==
    [][(scanPc = "run" /\ scanPc' = "run") => scanOffset' > scanOffset]_vars

\* C2: __getitem__(n) returns the field at index.offsets[n] when
\* 0 <= n < length(), and raises an out-of-range error for every other n,
\* the negative ones included.
C2_GetItemBoundsChecked ==
    ret.op = "getitem" =>
        IF 0 <= ret.n /\ ret.n < Len(index[ret.reader].offsets)
        THEN ret.raised = "-" /\ ret.offset = index[ret.reader].offsets[ret.n + 1]
        ELSE ret.raised = "IndexError"

\* the message field_at(i) decodes: the one its accessor finds at
\* index.offsets[i]
DecodedAt(r, i) == CodesNewFromFile(file, index[r].offsets[i])

\* the fields the iterator has produced are those of indexed access on
\* reader r: the i-th has the offset and the message of field_at(i), and an
\* iteration that has ended has produced length() of them
IterMatchesIndex(r) ==
    /\ \A i \in 1..Len(iter.out) :
         /\ i <= Len(index[r].offsets)
         /\ iter.out[i].offset = index[r].offsets[i]
         /\ DecodedAt(r, i).kind = "handle"
         /\ iter.out[i].start = DecodedAt(r, i).start
    /\ iter.end # "-" =>
         /\ iter.end = "StopIteration"
         /\ Len(iter.out) = Len(index[r].offsets)

\* C3 as stated: for every source file, the iteration yields length()
\* fields, the i-th with the offset and the message of field_at(i).
C3_IterationIsIndexedAccess ==
    (iter.on /\ index[iter.reader].built) => IterMatchesIndex(iter.reader)

\* C3, amended: the same, for a source file that is a concatenation of
\* well-formed messages with no byte before, between or after them, and
\* an index that describes it.
C3_IterationIsIndexedAccessOnPackedFile ==
    ( /\ iter.on
      /\ index[iter.reader].built
      /\ file \in ValidFiles
      /\ index[iter.reader].offsets = Offsets(ScanAll(file).pairs) )
    => IterMatchesIndex(iter.reader)

\* the iteration of an edition-1 and an edition-2 message, run to its end
C3_Witness ==
    /\ iter.end = "StopIteration"
    /\ index[iter.reader].built
    /\ file = MsgE1 \o MsgE2
    /\ iter.out = << [offset |-> 0, start |-> 0],
                     [offset |-> Len(MsgE1), start |-> Len(MsgE1)] >>

\* C6 as stated: over any accessor calls on one field, at_offset is
\* called at most once, and exactly once from the first call on.
C6_AtMostOneDecode ==
    \A i \in 1..Len(fields) :
        /\ fields[i].decodes <= 1
        /\ fields[i].calls > 0 => fields[i].decodes = 1

\* C6, amended: construction decodes nothing; a field whose first
\* accessor call decoded its message keeps that handle, with one at_offset
\* call however many accessor calls follow; a field whose at_offset call
\* fails caches nothing, and every accessor call on it calls at_offset again.
C6_OneDecodeOnceMaterialized ==
    \A i \in 1..Len(fields) :
        /\ fields[i].calls = 0 => (fields[i].decodes = 0 /\ fields[i].handle = 0)
        /\ fields[i].handle # 0 =>
              /\ fields[i].decodes = 1
              /\ fields[i].failed = "-"
              /\ handles[fields[i].handle].offset = fields[i].offset
        /\ fields[i].handle = 0 =>
              /\ fields[i].decodes = fields[i].calls
              /\ fields[i].calls > 0 => fields[i].failed # "-"

\* a field with a handle after two accessor calls and one decode
C6_Witness ==
    \E i \in 1..Len(fields) :
        /\ fields[i].calls >= 2
        /\ fields[i].handle # 0
        /\ fields[i].decodes = 1

\* C7: a materialized handle has been released exactly once, no later
\* than when its field's with-block has exited or the field was discarded.
C7_ReleasedAtScopeExit ==
    \A i \in 1..Len(fields) :
        (fields[i].handle # 0 /\ fields[i].scope \in {"exited", "dropped"}) =>
            handles[fields[i].handle].released = 1

\* C10: first is field_at(0): a field at index.offsets[0], and the
\* out-of-range error of field_at(0) when the file holds no message.
C10_FirstIsFieldAtZero ==
    (ret.op = "first" /\ index[ret.reader].built) =>
        IF Len(index[ret.reader].offsets) = 0
        THEN ret.raised = "IndexError"
        ELSE ret.raised = "-" /\ ret.offset = index[ret.reader].offsets[1]

\* the bytes of f from offset o on begin with the bytes m
StartsWith(f, o, m) ==
    /\ o >= 0
    /\ o + Len(m) <= Len(f)
    /\ SubSeq(f, o + 1, o + Len(m)) = m

\* C19 as stated: every pair the scanner has yielded has length > 0, the
\* offsets are strictly increasing and the ranges [offset, offset + length)
\* of different pairs do not overlap.
C19_PairsPositiveDisjoint ==
    \A i \in 1..Len(scanOut) :
        /\ scanOut[i][2] > 0
        /\ \A j \in 1..(i - 1) :
             /\ scanOut[j][1] < scanOut[i][1]
             /\ scanOut[j][1] + scanOut[j][2] <= scanOut[i][1]

\* C20: a pair yielded at an edition-1 message whose length field is
\* HighBit + k and whose section 4 length, found behind section 1 and the
\* sections 2 and 3 its flags announce, is s4, has length k * 120 - s4 + 4
\* when s4 < 120 and the length field unchanged otherwise; at a whole such
\* message the length is the number of bytes of the message; at a message
\* of edition 1 without the high bit the length is the length field.
C20_QuirkLength ==
    \A i \in 1..Len(scanOut) :
        \E o \in {scanOut[i][1]}, l \in {scanOut[i][2]} :
            /\ \A c \in QuirkWhole \cup QuirkHeads :
                 StartsWith(file, o, QuirkHead(c)) =>
                     l = IF c.s4 < Quirk THEN c.k * Quirk - c.s4 + 4
                         ELSE HighBit + c.k
            /\ \A c \in QuirkWhole :
                 StartsWith(file, o, QuirkMsg(c)) =>
                     l = Len(QuirkMsg(c))
            /\ ( /\ StartsWith(file, o, Marker)
                 /\ StartsWith(file, o + 7, <<1>>)
                 /\ file[o + 5] < Bit7 )
               => l = file[o + 5] * Byte * Byte + file[o + 6] * Byte + file[o + 7]

\* a finished scan of a message with the high bit and section 2 only,
\* followed by a plain edition-1 message
C20_Witness ==
    /\ scanPc = "done"
    /\ file = Ed1Quirk(1, 95, Bit7, 8, 5, 0) \o MsgE1
    /\ scanOut = << <<0, 29>>, <<29, 16>> >>

IsPrefix(a, b) == Len(a) <= Len(b) /\ SubSeq(b, 1, Len(a)) = a

\* C11: however the steps of an iteration and the field_at(n)
\* materializations of the same reader interleave, the iteration produces
\* the fields an iteration alone produces (on a file of whole messages, one
\* per message at the offsets of the scan), every materialized handle is
\* the message at its field's offset, an offset of the index, and no step
\* changes both the iterator and the random-access cursor.
C11_IterationAndAccessIndependent ==
    /\ [](iter.on =>
            /\ IsPrefix(iter.out, IterateAll(file).out)
            /\ iter.end # "-" =>
                 /\ iter.out = IterateAll(file).out
                 /\ iter.end = IterateAll(file).end
                 /\ file \in ValidFiles =>
                      [i \in 1..Len(iter.out) |-> iter.out[i].offset]
                          = Offsets(ScanAll(file).pairs))
    /\ [](\A i \in 1..Len(fields) :
            fields[i].handle # 0 =>
                /\ handles[fields[i].handle].start = fields[i].offset
                /\ \E n \in 1..Len(index[fields[i].cursor].offsets) :
                     index[fields[i].cursor].offsets[n] = fields[i].offset)
    /\ [][ /\ iter' # iter => cursor' = cursor /\ handles' = handles
           /\ cursor' # cursor => iter' = iter ]_vars

\* an iteration that has produced the first of two messages while the
\* random-access cursor, having decoded the second, is at the end of the file
C11_Witness ==
    /\ file = MsgE1 \o MsgE2
    /\ iter.on /\ iter.end = "-"
    /\ iter.out = <<[offset |-> 0, start |-> 0]>>
    /\ cursor["r1"] = Len(file)
    /\ \E i \in 1..Len(fields) :
         fields[i].offset = Len(MsgE1) /\ fields[i].handle # 0

\* C12: once a reader's index is built or loaded, no step changes it, and
\* no step opens another construction (a scan or a load of the sidecar)
\* for that reader: length(), field_at, first, the iteration and
\* statistics() among the steps.
C12_IndexImmutable ==
    [][ \A r \in Readers :
            index[r].built => (index'[r] = index[r] /\ building' # r) ]_vars

\* a reader with its index built by a scan, after field_at, a finished
\* iteration, statistics() and length()
C12_Witness ==
    /\ index["r1"].built /\ index["r1"].scanned
    /\ Len(index["r1"].offsets) = 2
    /\ Len(fields) = 2
    /\ iter.end = "StopIteration"
    /\ stats["r1"].computed = 1
    /\ ret.op = "len"

\* C13 as stated: a failed write of a sidecar is not raised: the index
\* construction that scanned ends with its index, and a statistics() call
\* that computed its record returns it.
C13_WriteFailureNotRaised ==
    /\ \A r \in Readers :
         (scanPc = "done" /\ ret.op = "index" /\ ret.reader = r) =>
             (ret.raised = "-" /\ index[r].built)
    /\ \A r \in Readers :
         (stats[r].computed > 0 /\ HasStatistics(stats[r].memo)) =>
             (stats[r].raised = "-" /\ stats[r].returned = stats[r].memo)

\* C14 as stated: no error from reading the statistics sidecar reaches
\* the caller of statistics().
C14_StatSidecarTolerant ==
    \A r \in Readers :
        stats[r].raised \notin {"load:OSError", "load:JSONDecodeError"}

\* a statistics() call on reader r is the step
StatCall(r) == stats'[r].calls = stats[r].calls + 1

\* the call returns the record rec and no reader iterates over the fields
ReturnsUncomputed(r, rec) ==
    /\ stats'[r].raised = "-"
    /\ stats'[r].returned = rec
    /\ \A q \in Readers : stats'[q].computed = stats[q].computed

IsSentinel(name) == message[name] = Found(PyInt(Sentinel))

\* the decoder answers an int that is not the sentinel
IsDimension(name) ==
    /\ message[name].kind = "value"
    /\ message[name].value.t = "int"
    /\ message[name].value.v # Sentinel

\* C16: when the decoder answers the sentinel for Nj or Ni, shape gives
\* None for that dimension and to_numpy (normalise or not) raises nothing
\* and returns what values returns, unreshaped; when both dimensions are
\* present and the values are Nj * Ni, to_numpy returns them as Nj rows
\* of Ni.
C16_SentinelIsAbsentDimension ==
    /\ got.op = "shape" =>
         /\ IsSentinel("Nj") => (got.raised = "-" /\ got.value[1] = None)
         /\ IsSentinel("Ni") => (got.raised = "-" /\ got.value[2] = None)
         /\ IsDimension("Nj") => got.value[1] = message["Nj"].value
         /\ IsDimension("Ni") => got.value[2] = message["Ni"].value
    /\ (got.op = "to_numpy" /\ (IsSentinel("Nj") \/ IsSentinel("Ni"))) =>
         /\ got.raised = "-"
         /\ got.value = IF message["values"].kind = "value"
                        THEN message["values"].value ELSE None
    /\ ( /\ got.op = "to_numpy"
         /\ IsDimension("Nj") /\ IsDimension("Ni")
         /\ message["values"].kind = "value"
         /\ Len(message["values"].value.v)
                = message["Nj"].value.v * message["Ni"].value.v ) =>
         /\ got.raised = "-"
         /\ got.value.t = "array2"
         /\ Len(got.value.v) = message["Nj"].value.v
         /\ \A i \in 1..message["Nj"].value.v :
              /\ Len(got.value.v[i]) = message["Ni"].value.v
              /\ \A j \in 1..message["Ni"].value.v :
                   got.value.v[i][j] =
                       message["values"].value.v[(i - 1) * message["Ni"].value.v + j]

\* to_numpy(normalise = TRUE) of a field of six values whose Ni is the
\* sentinel: the six values as they are
C16_Witness ==
    /\ got.op = "to_numpy" /\ got.normalise
    /\ message["Nj"] = Found(PyInt(2))
    /\ IsSentinel("Ni")
    /\ got.raised = "-"
    /\ got.value = PyArray(<<11, 12, 13, 14, 15, 16>>)

\* C17: when the decoder signals key-not-found for the key asked, get
\* returns None and raises nothing, whether the key is values, one of the
\* array-valued keys or a scalar.
C17_KeyNotFoundIsNone ==
    (got.op = "get" /\ message[got.name] = NotFound) =>
        (got.raised = "-" /\ got.value = None)

\* get("distinctLatitudes") on a message without that key
C17_Witness ==
    /\ got.op = "get" /\ got.name = "distinctLatitudes"
    /\ message["distinctLatitudes"] = NotFound
    /\ message["values"] # NotFound
    /\ got.value = None /\ got.raised = "-"

(***************************************************************************)
(* Selection and ordering.                                                 *)
(***************************************************************************)
\* how often field f occurs in fs
Occurrences(fs, f) == Cardinality({i \in DOMAIN fs : fs[i] = f})

\* the first key of the order on which a and b differ, 0 when none
FirstDifference(order, a, b) ==
    IF \E k \in DOMAIN order :
           Metadata(a, order[k].key) # Metadata(b, order[k].key)
    THEN CHOOSE k \in DOMAIN order :
           /\ Metadata(a, order[k].key) # Metadata(b, order[k].key)
           /\ \A h \in 1..(k - 1) :
                Metadata(a, order[h].key) = Metadata(b, order[h].key)
    ELSE 0

\* a stands before b in what `by` says of a key: earlier in the value
\* list, smaller when ascending, greater when descending
StandsBefore(key, by, a, b) ==
    CASE by.dir = "list" ->
           \E i, j \in DOMAIN by.values :
               /\ i < j
               /\ by.values[i] = Metadata(a, key)
               /\ by.values[j] = Metadata(b, key)
      [] by.dir = "ascending" ->
           IF key = "level" THEN a.level < b.level
           ELSE Ord(a.param) < Ord(b.param)
      [] by.dir = "descending" ->
           IF key = "level" THEN a.level > b.level
           ELSE Ord(a.param) > Ord(b.param)

\* C18: after sel(request) and order_by(order) the dataset holds each
\* selected field as often as the selection did, so as many fields, and
\* of any two fields that differ on a key of the order, the one that
\* stands first on the first such key comes first.
C18_OrderByIsSortedPermutation ==
    ds.stage = "ordered" =>
        /\ Len(ds.fields) = Len(ds.selected)
        /\ \A f \in [param : Params, level : Levels] :
             /\ Occurrences(ds.fields, f) = Occurrences(ds.selected, f)
             /\ Occurrences(ds.selected, f) =
                  IF Matches(f, ds.request) THEN Occurrences(Fixtures, f)
                  ELSE 0
        /\ \A i, j \in DOMAIN ds.fields :
             i < j =>
               \E k \in {FirstDifference(ds.order, ds.fields[i],
                                         ds.fields[j])} :
                  k # 0 => StandsBefore(ds.order[k].key, ds.order[k].by,
                                        ds.fields[i], ds.fields[j])

\* two levels and two params selected in another order, then ordered by
\* level descending and variable ascending: greatest level with least
\* param, greatest level with greatest param, least level with least
\* param, least level with greatest param
C18_Witness ==
    /\ ds.stage = "ordered"
    /\ ds.request = [variable |-> <<"u", "t">>, level |-> <<500, 850>>]
    /\ ds.order = <<[key |-> "level", by |-> Descending],
                    [key |-> "variable", by |-> Ascending]>>
    /\ ds.selected # ds.fields
    /\ ds.fields = << [param |-> "t", level |-> 850],
                      [param |-> "u", level |-> 850],
                      [param |-> "t", level |-> 500],
                      [param |-> "u", level |-> 500] >>

(***************************************************************************)
(* Padding before and between messages.                                    *)
(***************************************************************************)
\* where the messages of a layout lie: the pair of the i-th message is
\* the number of bytes before its marker and the number of its bytes
RECURSIVE BytesBefore(_, _)
BytesBefore(lay, i) ==
    IF i = 1 THEN Len(lay[1].pad)
    ELSE BytesBefore(lay, i - 1) + Len(lay[i - 1].msg) + Len(lay[i].pad)

MessagePairs(lay) ==
    [i \in 1..Len(lay) |-> <<BytesBefore(lay, i), Len(lay[i].msg)>>]

\* the scan of a file of padded messages, wherever it stands: the pairs
\* delivered are the first messages of the file, the scan has not passed
\* the marker of the next one, and it ends with all of them
PaddedScan(lay) ==
    /\ scanPc # "raised"
    /\ scanPc \in {"run", "done"} =>
         /\ Len(scanOut) <= Len(lay)
         /\ \A i \in DOMAIN scanOut : scanOut[i] = MessagePairs(lay)[i]
    /\ (scanPc = "run" /\ Len(scanOut) < Len(lay)) =>
         scanOffset <= MessagePairs(lay)[Len(scanOut) + 1][1]
    /\ scanPc = "done" => scanOut = MessagePairs(lay)

\* a pass that read four bytes other than the marker and moved on
Mismatch ==
    /\ scanPc = "run"
    /\ Len(Read(file, scanOffset, 4)) = 4
    /\ Read(file, scanOffset, 4) # Marker
    /\ scanOffset' # scanOffset

\* C21: on a file of messages behind runs of bytes that hold no marker,
\* the scan moves one byte on after each mismatch, and delivers one pair
\* per message, at the offset of its marker: none skipped, none made of
\* padding.
C21_PaddingSkippedByteByByte ==
    /\ [](\A lay \in Layouts : file = Render(lay) => PaddedScan(lay))
    /\ [][(file \in PaddedFiles /\ Mismatch)
            => scanOffset' = scanOffset + 1]_vars

\* a scan that ended on a file with padding before both of its messages
C21_Witness ==
    /\ file = Render(<<[pad |-> <<71, 82, 73>>, msg |-> MsgE2],
                       [pad |-> <<66, 73, 82, 71, 7>>, msg |-> MsgE1]>>)
    /\ scanPc = "done"
    /\ scanOut = << <<3, 20>>, <<28, 16>> >>

(***************************************************************************)
(* The shape of the index.                                                 *)
(***************************************************************************)
\* a record of the current version whose offsets or lengths are missing,
\* or are lists of different lengths
ShapeMismatch(c) ==
    /\ c.kind = "dict"
    /\ "version" \in c.keys
    /\ c.version = VERSION
    /\ \/ "offsets" \notin c.keys
       \/ "lengths" \notin c.keys
       \/ Len(c.offsets) # Len(c.lengths)

\* C22 as stated: a constructed index has as many lengths as offsets,
\* and a construction that finds a sidecar of the current version with a
\* shape mismatch scans the file instead of taking the sidecar's lists.
C22_IndexWellShaped ==
    /\ [](\A r \in Readers :
            index[r].built => Len(index[r].offsets) = Len(index[r].lengths))
    /\ [][\A r \in Readers :
            (~index[r].built /\ index'[r].built /\ ShapeMismatch(cache))
                => index'[r].scanned]_vars

(***************************************************************************)
(* Fields of one reader on its shared cursor.                              *)
(***************************************************************************)
\* the offsets a reader's index holds
IndexOffsets(r) == {index[r].offsets[k] : k \in DOMAIN index[r].offsets}

\* C23: whatever the order of field_at(n) and accessor calls on one
\* reader, a field made by field_at(n) has the offset index.offsets[n],
\* a materialized handle carries the offset of its field and is the
\* message that starts there, and no step changes a field's offset or the
\* handle a field has cached.
C23_HandleAtOwnOffset ==
    /\ [](\A i \in DOMAIN fields :
            fields[i].handle # 0 =>
              /\ handles[fields[i].handle].offset = fields[i].offset
              /\ fields[i].offset \in IndexOffsets(fields[i].cursor)
                   => handles[fields[i].handle].start = fields[i].offset)
    /\ [][ /\ (ret'.op = "getitem" /\ ret'.raised = "-"
                  /\ Len(fields') = Len(fields) + 1) =>
                /\ 0 <= ret'.n /\ ret'.n < Len(index[ret'.reader].offsets) =>
                     fields'[Len(fields')].offset
                         = index[ret'.reader].offsets[ret'.n + 1]
                /\ fields'[Len(fields')].offset \in IndexOffsets(ret'.reader)
           /\ \A i \in DOMAIN fields :
                /\ fields'[i].offset = fields[i].offset
                /\ fields[i].handle # 0 =>
                     /\ fields'[i].handle = fields[i].handle
                     /\ handles'[fields[i].handle] = handles[fields[i].handle]
         ]_vars

\* two fields at different offsets, the later one materialized first, so
\* that the cursor went back for the other, and then used again
C23_Witness ==
    /\ Len(fields) = 2
    /\ fields[1].cursor = fields[2].cursor
    /\ fields[1].offset < fields[2].offset
    /\ fields[2].handle = 1 /\ fields[1].handle = 2
    /\ fields[2].calls = 2 /\ fields[2].decodes = 1
    /\ handles[1].offset = fields[2].offset
    /\ handles[2].offset = fields[1].offset

(***************************************************************************)
(* A FieldSet as the concatenation of its readers.                         *)
(***************************************************************************)
\* how many fields the first m readers of a FieldSet hold
RECURSIVE FieldsBefore(_, _)
FieldsBefore(sources, m) ==
    IF m = 0 THEN 0
    ELSE FieldsBefore(sources, m - 1) + Len(index[sources[m]].offsets)

Total(sources) == FieldsBefore(sources, Len(sources))

\* item is what position i of the concatenation holds: the field at
\* position i - (fields before r_m) of the reader r_m that contains i,
\* and IndexError from the total on
IsConcatenated(sources, i, item) ==
    IF i >= Total(sources) THEN item.raised = "IndexError"
    ELSE \E m \in DOMAIN sources :
           /\ FieldsBefore(sources, m - 1) <= i
           /\ i < FieldsBefore(sources, m)
           /\ item.raised = "-"
           /\ item.reader = sources[m]
           /\ item.n = i - FieldsBefore(sources, m - 1)
           /\ item.offset = index[sources[m]].offsets[item.n + 1]

\* C24 as stated: the item a FieldSet gives for i >= 0 is the one the
\* concatenation of its readers holds there, IndexError from the total
\* on, and an iteration that has stopped has yielded every field of the
\* concatenation, in order.
C24_FieldSetIsConcatenation ==
    SourcesBuilt(fieldset.sources) =>
        /\ fieldset.item # NoItem =>
             IsConcatenated(fieldset.sources, fieldset.item.i, fieldset.item)
        /\ \A k \in DOMAIN fieldset.out :
             IsConcatenated(fieldset.sources, k - 1, fieldset.out[k])
        /\ fieldset.end = "StopIteration" =>
             Len(fieldset.out) = Total(fieldset.sources)
====
